---- MODULE Spec2Model ----
(***************************************************************************)
(* Model of kiota-python:                                                  *)
(*   - the ISO-8601 duration parser of kiota_abstractions/utils.py;        *)
(*   - the Parsable protocol as implemented by the generated models        *)
(*     ItemBody, ErrorDetails and ODataError (validation/models).          *)
(* Strings that are parsed are sequences of one-character strings.         *)
(***************************************************************************)
EXTENDS Integers, Sequences, FiniteSets, TLC

VARIABLES
    duration_str,   \* argument of parseTimeDeltaFromIsoFormat
    dpc,            \* "start" before the call, "done" after it
    outcome,        \* what the call produced: a value or a raised exception
    heap,           \* slot -> the model instance living there (or NoObject)
    pc,             \* slot -> position of the caller working on that instance
    node,           \* slot -> the parse node being decoded (or NoNode)
    fields,         \* slot -> mapping returned by get_field_deserializers
    pos,            \* slot -> index of the next payload field to dispatch
    written,        \* slot -> the calls made on the serialization writer
    raised,         \* slot -> exception raised by the latest call ("none")
    call,           \* slot -> the latest call and whether its argument was None
    orig,           \* slot -> the instance whose encoding is being decoded
    result          \* slot -> value returned by the latest primary_message

vars == <<duration_str, dpc, outcome, heap, pc, node, fields, pos, written,
          raised, call, orig, result>>

durVars == <<duration_str, dpc, outcome>>
modelVars == <<heap, pc, node, fields, pos, written, raised, call, orig, result>>

(***************************************************************************)
(* Bounds of the model.                                                    *)
(***************************************************************************)
MaxLen == 3          \* longest enumerated duration string
MaxPayload == 3      \* most fields in an enumerated payload
MaxConcPayload == 2  \* most fields in a payload decoded concurrently

(***************************************************************************)
(*                         DURATION PARSER                                 *)
(***************************************************************************)
Digits == <<"0", "1", "2", "3", "4", "5", "6", "7", "8", "9">>

IsDigit(c) == \E d \in 1..Len(Digits) : Digits[d] = c

DigitValue(c) == (CHOOSE d \in 1..Len(Digits) : Digits[d] = c) - 1

\* int(text) for a non-empty run of decimal digits
RECURSIVE IntOf(_)
IntOf(ds) ==
    IF Len(ds) = 0 THEN 0
    ELSE 10 * IntOf(SubSeq(ds, 1, Len(ds) - 1)) + DigitValue(ds[Len(ds)])

\* a group that did not take part in the match: match.groups() gives None
NoCapture == <<>>

\* the seven capture groups of _ISO8601_DURATION_PATTERN, in pattern order
GroupNames == <<"years", "months", "weeks", "days", "hours", "minutes", "seconds">>

\* steps of the pattern after the leading 'P': four date groups, the 'T' that
\* opens the optional time part, three time groups, then the end of the pattern
Designator == <<"Y", "M", "W", "D", "T", "H", "M", "S">>
TimeStep == 5
EndStep == 9

CaptureIndex(step) == IF step < TimeStep THEN step ELSE step - 1

NoCaptures == [g \in 1..7 |-> NoCapture]

\* number of consecutive digits of s starting at position i
RECURSIVE DigitRun(_, _)
DigitRun(s, i) ==
    IF i <= Len(s) /\ IsDigit(s[i]) THEN 1 + DigitRun(s, i + 1) ELSE 0

\* Every way the pattern matches s from position i on, in the order the
\* backtracking matcher tries them: an optional group is tried before it is
\* skipped, and \d+ takes the longest run of digits first.
RECURSIVE MatchSteps(_, _, _, _), TryDigits(_, _, _, _, _)
TryDigits(s, i, step, caps, k) ==
    IF k = 0 THEN <<>>
    ELSE (IF i + k <= Len(s) /\ s[i + k] = Designator[step]
          THEN MatchSteps(s, i + k + 1, step + 1,
                          [caps EXCEPT ![CaptureIndex(step)] = SubSeq(s, i, i + k - 1)])
          ELSE <<>>)
         \o TryDigits(s, i, step, caps, k - 1)

MatchSteps(s, i, step, caps) ==
    IF step = EndStep THEN <<[end |-> i, groups |-> caps]>>
    ELSE IF step = TimeStep
    THEN (IF i <= Len(s) /\ s[i] = "T"
          THEN MatchSteps(s, i + 1, step + 1, caps) ELSE <<>>)
         \o <<[end |-> i, groups |-> caps]>>
    ELSE TryDigits(s, i, step, caps, DigitRun(s, i))
         \o MatchSteps(s, i, step + 1, caps)

\* candidate matches of the whole pattern at the start of s
PatternMatches(s) ==
    IF Len(s) >= 1 /\ s[1] = "P" THEN MatchSteps(s, 2, 1, NoCaptures) ELSE <<>>

NoMatch == [end |-> 0]

\* pattern.match(s): the first candidate, wherever it ends
PatternMatchPrefix(s) ==
    IF Len(PatternMatches(s)) = 0 THEN NoMatch ELSE PatternMatches(s)[1]

\* pattern.fullmatch(s): the first candidate that ends at the end of s
PatternFullmatch(s) ==
    LET cands == PatternMatches(s)
        full == {j \in 1..Len(cands) : cands[j].end = Len(s) + 1}
    IN IF full = {} THEN NoMatch
       ELSE cands[CHOOSE j \in full : \A k \in full : j <= k]

\* int(group or 0)
IntOrZero(cap) == IF cap = NoCapture THEN 0 ELSE IntOf(cap)

\* keyword arguments datetime.timedelta accepts
TimedeltaKeywords == {"days", "seconds", "microseconds", "milliseconds",
                      "minutes", "hours", "weeks"}

\* datetime.timedelta(**kwargs): an unknown keyword raises TypeError,
\* otherwise the value is kept as normalised days and seconds
TimedeltaNew(kwargs) ==
    IF ~(DOMAIN kwargs \subseteq TimedeltaKeywords)
    THEN [kind |-> "TypeError"]
    ELSE LET arg(k) == IF k \in DOMAIN kwargs THEN kwargs[k] ELSE 0
             secs == arg("seconds") + 60 * arg("minutes") + 3600 * arg("hours")
         IN [kind |-> "timedelta",
             days |-> arg("days") + 7 * arg("weeks") + (secs \div 86400),
             seconds |-> secs % 86400]

\* parseTimeDeltaFromIsoFormat(duration_str)
ParseTimeDeltaFromIsoFormat(s) ==
    LET match == PatternFullmatch(s)
    IN IF match = NoMatch
       THEN [kind |-> "ValueError"]
       ELSE TimedeltaNew([k \in {GroupNames[g] : g \in 1..7} |->
                IntOrZero(match.groups[CHOOSE g \in 1..7 : GroupNames[g] = k])])

\* characters of the enumerated inputs
Alphabet == {"P", "T", "Y", "M", "W", "D", "H", "S", "0", "1", "X"}

\* inputs longer than MaxLen that the grammar's cases need
LiteralCases ==
    { <<"P", "T", "1", "H", "3", "0", "M">>,
      <<"P", "1", "M", "1", "Y">>,
      <<"P", "1", "M", "T", "1", "M">>,
      <<"P", "1", "Y", "2", "M", "3", "W", "4", "D", "T", "5", "H", "6", "M", "7", "S">>,
      <<"P", "1", "Y", "2", "M", "3", "W", "4", "D", "T", "5", "H", "6", "M", "7", "S", "X">>,
      <<"P", "0", "1", "0", "D", "T">>,
      <<"P", "T", "1", "S", "1", "H">>,
      <<"P", "1", "D", "1", "H">> }

DurationInputs ==
    UNION {[1..n -> Alphabet] : n \in 0..MaxLen} \cup LiteralCases

(***************************************************************************)
(*                     PARSABLE MODEL PROTOCOL                             *)
(***************************************************************************)
\* slots that hold an instance; each slot is worked on by one caller thread
Slots == {1, 2}
MainSlot == CHOOSE t \in Slots : \A u \in Slots : t <= u

Variants == {"ItemBody", "ErrorDetails", "ODataError"}

\* ---- Python values ----
PyNone == [kind |-> "None"]
PyStr(s) == [kind |-> "str", val |-> s]
PyBodyType(member) == [kind |-> "BodyType", val |-> member]
PyMainError(message, additional_data) ==
    [kind |-> "MainError", message |-> message, additional_data |-> additional_data]
PyDict(items) == [kind |-> "dict", val |-> items]

\* ---- values on the wire, as a parse node sees them ----
JNull == [kind |-> "null"]
JStr(s) == [kind |-> "string", val |-> s]
JObj(fs) == [kind |-> "object", val |-> fs]

NoNode == PyNone      \* parse_node is None
NoWriter == "None"    \* writer is None
TheWriter == "writer"

DecodeError == [kind |-> "DecodeError"]

EmptyMap == <<>>
MapPut(m, k, v) == [x \in DOMAIN m \cup {k} |-> IF x = k THEN v ELSE m[x]]

NoObject == [variant |-> "NoObject", attrs |-> EmptyMap, additional_data |-> EmptyMap]

\* setattr(obj, attr, v)
SetAttr(obj, attr, v) == [obj EXCEPT !.attrs = MapPut(obj.attrs, attr, v)]

\* reserved key under which a payload carries its discriminator
DiscriminatorKey == "@odata.type"

\* members of the BodyType enum and their underlying values
BodyTypeMembers == {"Text", "Html"}
BodyTypeValue(member) == IF member = "Text" THEN "text" ELSE "html"

\* ---- dataclass defaults: a freshly constructed instance ----
ItemBody_new ==
    [variant |-> "ItemBody",
     attrs |-> [content |-> PyNone, content_type |-> PyNone],
     additional_data |-> EmptyMap]

ErrorDetails_new ==
    [variant |-> "ErrorDetails",
     attrs |-> [code |-> PyNone, message |-> PyNone, target |-> PyNone],
     additional_data |-> EmptyMap]

ODataError_new ==
    [variant |-> "ODataError",
     attrs |-> [error |-> PyNone],
     additional_data |-> EmptyMap]

\* ---- create_from_discriminator_value(parse_node) ----
Raise(exc) == [raised |-> exc, value |-> NoObject]
Return(v) == [raised |-> "none", value |-> v]

\* a factory that rejects a node whose discriminator it does not know
StrictFactory(parse_node, known, v) ==
    IF parse_node = NoNode THEN Raise("TypeError")
    ELSE IF \E i \in 1..Len(parse_node.val) :
               /\ parse_node.val[i].name = DiscriminatorKey
               /\ parse_node.val[i].node = JStr(known)
    THEN Return(v)
    ELSE Raise("ValueError")

ItemBody_create_strict(parse_node) ==
    StrictFactory(parse_node, "#microsoft.graph.itemBody", ItemBody_new)

ItemBody_create_from_discriminator_value(parse_node) ==
    IF parse_node = NoNode THEN Raise("TypeError") ELSE Return(ItemBody_new)

ErrorDetails_create_from_discriminator_value(parse_node) ==
    IF parse_node = NoNode THEN Raise("TypeError") ELSE Return(ErrorDetails_new)

ODataError_create_from_discriminator_value(parse_node) ==
    IF parse_node = NoNode THEN Raise("TypeError") ELSE Return(ODataError_new)

create_from_discriminator_value(variant, parse_node) ==
    CASE variant = "ItemBody" -> ItemBody_create_from_discriminator_value(parse_node)
      [] variant = "ErrorDetails" -> ErrorDetails_create_from_discriminator_value(parse_node)
      [] variant = "ODataError" -> ODataError_create_from_discriminator_value(parse_node)

\* ---- get_field_deserializers(self): payload name -> callback ----
\* A callback is lambda n: setattr(self, attr, n.<read>()); self is the slot of
\* the instance the closure captured.
Callback(self, attr, read) == [self |-> self, attr |-> attr, read |-> read]

ItemBody_get_field_deserializers_no_enum(self) ==
    "content" :> Callback(self, "content", "get_str_value")

ItemBody_get_field_deserializers(self) ==
    ("content" :> Callback(self, "content", "get_str_value"))
    @@ ("contentType" :> Callback(self, "content_type", "get_enum_value"))

ErrorDetails_get_field_deserializers_shared(self) ==
    ("code" :> Callback(MainSlot, "code", "get_str_value"))
    @@ ("message" :> Callback(MainSlot, "message", "get_str_value"))
    @@ ("target" :> Callback(MainSlot, "target", "get_str_value"))

ErrorDetails_get_field_deserializers(self) ==
    ("code" :> Callback(self, "code", "get_str_value"))
    @@ ("message" :> Callback(self, "message", "get_str_value"))
    @@ ("target" :> Callback(self, "target", "get_str_value"))

ODataError_get_field_deserializers(self) ==
    "error" :> Callback(self, "error", "get_object_value")

get_field_deserializers(variant, self) ==
    CASE variant = "ItemBody" -> ItemBody_get_field_deserializers(self)
      [] variant = "ErrorDetails" -> ErrorDetails_get_field_deserializers(self)
      [] variant = "ODataError" -> ODataError_get_field_deserializers(self)

\* ---- serialize(self, writer): the calls made on the writer ----
WriteCall(op, key, value) == [op |-> op, key |-> key, value |-> value]
WriteAdditionalData(m) == WriteCall("write_additional_data_value", "", PyDict(m))

Raised(exc) == [raised |-> exc, calls |-> <<>>]
Wrote(calls) == [raised |-> "none", calls |-> calls]

ItemBody_serialize_attribute_key(self, writer) ==
    IF writer = NoWriter THEN Raised("TypeError")
    ELSE Wrote(<<WriteCall("write_str_value", "content", self.attrs.content),
                 WriteCall("write_enum_value", "content_type", self.attrs.content_type),
                 WriteAdditionalData(self.additional_data)>>)

ItemBody_serialize_additional_first(self, writer) ==
    IF writer = NoWriter THEN Raised("TypeError")
    ELSE Wrote(<<WriteAdditionalData(self.additional_data),
                 WriteCall("write_str_value", "content", self.attrs.content),
                 WriteCall("write_enum_value", "contentType", self.attrs.content_type)>>)

ItemBody_serialize(self, writer) ==
    IF writer = NoWriter THEN Raised("TypeError")
    ELSE Wrote(<<WriteCall("write_str_value", "content", self.attrs.content),
                 WriteCall("write_enum_value", "contentType", self.attrs.content_type),
                 WriteAdditionalData(self.additional_data)>>)

ErrorDetails_serialize_unguarded(self, writer) ==
    Wrote(<<WriteCall("write_str_value", "code", self.attrs.code),
            WriteCall("write_str_value", "message", self.attrs.message),
            WriteCall("write_str_value", "target", self.attrs.target),
            WriteAdditionalData(self.additional_data)>>)

ErrorDetails_serialize(self, writer) ==
    IF writer = NoWriter THEN Raised("TypeError")
    ELSE Wrote(<<WriteCall("write_str_value", "code", self.attrs.code),
                 WriteCall("write_str_value", "message", self.attrs.message),
                 WriteCall("write_str_value", "target", self.attrs.target),
                 WriteAdditionalData(self.additional_data)>>)

ODataError_serialize_declared_only(self, writer) ==
    IF writer = NoWriter THEN Raised("TypeError")
    ELSE Wrote(<<WriteCall("write_object_value", "error", self.attrs.error)>>)

ODataError_serialize(self, writer) ==
    IF writer = NoWriter THEN Raised("TypeError")
    ELSE Wrote(<<WriteCall("write_object_value", "error", self.attrs.error),
                 WriteAdditionalData(self.additional_data)>>)

serialize(self, writer) ==
    CASE self.variant = "ItemBody" -> ItemBody_serialize(self, writer)
      [] self.variant = "ErrorDetails" -> ErrorDetails_serialize(self, writer)
      [] self.variant = "ODataError" -> ODataError_serialize(self, writer)

\* ---- ODataError.primary_message ----
ODataError_primary_message_raw(self) ==
    IF self.attrs.error # PyNone THEN self.attrs.error.message ELSE PyStr("")

ODataError_primary_message(self) ==
    IF self.attrs.error # PyNone
    THEN (IF self.attrs.error.message = PyNone
          THEN PyStr("") ELSE self.attrs.error.message)
    ELSE PyStr("")

(***************************************************************************)
(* The collaborators the models call: the parse node's typed reads, the    *)
(* writer's typed writes, the nested MainError model and the loop that     *)
(* dispatches a payload's fields.                                          *)
(***************************************************************************)
\* n.get_str_value()
get_str_value(n) ==
    IF n.kind = "string" THEN PyStr(n.val)
    ELSE IF n.kind = "null" THEN PyNone
    ELSE DecodeError

\* n.get_enum_value(BodyType)
get_enum_value(n) ==
    IF n.kind = "null" THEN PyNone
    ELSE IF n.kind = "string" /\ \E m \in BodyTypeMembers : BodyTypeValue(m) = n.val
    THEN PyBodyType(CHOOSE m \in BodyTypeMembers : BodyTypeValue(m) = n.val)
    ELSE DecodeError

\* the value kept for a field no callback is registered for
RawValue(n) ==
    IF n.kind = "string" THEN PyStr(n.val)
    ELSE IF n.kind = "null" THEN PyNone
    ELSE PyDict(n.val)

\* MainError: decoding of its fields (message is the one declared field read)
RECURSIVE MainError_decode(_, _, _)
MainError_decode(fs, i, e) ==
    IF e = DecodeError \/ i > Len(fs) THEN e
    ELSE IF fs[i].name = "message"
    THEN LET v == get_str_value(fs[i].node)
         IN IF v = DecodeError THEN DecodeError
            ELSE MainError_decode(fs, i + 1, [e EXCEPT !.message = v])
    ELSE MainError_decode(fs, i + 1,
            [e EXCEPT !.additional_data = MapPut(@, fs[i].name, RawValue(fs[i].node))])

\* n.get_object_value(MainError)
get_object_value(n) ==
    IF n.kind = "null" THEN PyNone
    ELSE IF n.kind = "object" THEN MainError_decode(n.val, 1, PyMainError(PyNone, EmptyMap))
    ELSE DecodeError

ReadValue(read, n) ==
    CASE read = "get_str_value" -> get_str_value(n)
      [] read = "get_enum_value" -> get_enum_value(n)
      [] read = "get_object_value" -> get_object_value(n)

\* MainError.serialize
MainError_serialize(e) ==
    <<WriteCall("write_str_value", "message", e.message),
      WriteAdditionalData(e.additional_data)>>

\* the keys of a mapping, in a fixed order
RECURSIVE KeySeq(_)
KeySeq(ks) ==
    IF ks = {} THEN <<>>
    ELSE LET k == CHOOSE x \in ks : TRUE IN <<k>> \o KeySeq(ks \ {k})

PayloadField(name, n) == [name |-> name, node |-> n]

\* the node a raw additional-data value is written as
RawNode(v) ==
    IF v.kind = "str" THEN JStr(v.val)
    ELSE IF v.kind = "None" THEN JNull
    ELSE JObj(v.val)

\* the fields the writer emits for a sequence of calls made on it
RECURSIVE WriterPayload(_)
WriterPayload(calls) ==
    IF Len(calls) = 0 THEN <<>>
    ELSE LET c == calls[1]
             emitted ==
               CASE c.op = "write_str_value" ->
                      <<PayloadField(c.key,
                          IF c.value = PyNone THEN JNull ELSE JStr(c.value.val))>>
                 [] c.op = "write_enum_value" ->
                      <<PayloadField(c.key,
                          IF c.value = PyNone THEN JNull
                          ELSE JStr(BodyTypeValue(c.value.val)))>>
                 [] c.op = "write_object_value" ->
                      <<PayloadField(c.key,
                          IF c.value = PyNone THEN JNull
                          ELSE JObj(WriterPayload(MainError_serialize(c.value))))>>
                 [] c.op = "write_additional_data_value" ->
                      LET ks == KeySeq(DOMAIN c.value.val)
                      IN [j \in 1..Len(ks) |->
                            PayloadField(ks[j], RawNode(c.value.val[ks[j]]))]
         IN emitted \o WriterPayload(Tail(calls))

\* ---- inputs ----
StrValues == {"a", "b"}

UnknownFields ==
    {PayloadField(DiscriminatorKey, JStr("#microsoft.graph.unknownType"))}
    \cup {PayloadField("x", JStr(s)) : s \in StrValues}

StrNodes == {JNull} \cup {JStr(s) : s \in StrValues}

MainErrorNodes ==
    {JNull, JObj(<<>>)}
    \cup {JObj(<<PayloadField("message", n)>>) : n \in {JNull, JStr("a")}}

PayloadFields(variant) ==
    UnknownFields \cup
    CASE variant = "ItemBody" ->
           {PayloadField("content", n) : n \in StrNodes}
           \cup {PayloadField("contentType", JStr(BodyTypeValue(m))) : m \in BodyTypeMembers}
      [] variant = "ErrorDetails" ->
           {PayloadField(k, n) : k \in {"code", "message", "target"}, n \in StrNodes}
      [] variant = "ODataError" ->
           {PayloadField("error", n) : n \in MainErrorNodes}

Nodes(variant) ==
    {JObj(fs) : fs \in UNION {[1..n -> PayloadFields(variant)] : n \in 0..MaxPayload}}

\* payloads of a slot decoded concurrently: every value names its slot
SlotStr(t) == IF t = MainSlot THEN "a" ELSE "b"
SlotMember(t) == IF t = MainSlot THEN "Text" ELSE "Html"

ConcFields(variant, t) ==
    {PayloadField("x", JStr(SlotStr(t)))} \cup
    CASE variant = "ItemBody" ->
           {PayloadField("content", JStr(SlotStr(t))),
            PayloadField("contentType", JStr(BodyTypeValue(SlotMember(t))))}
      [] variant = "ErrorDetails" ->
           {PayloadField("code", JStr(SlotStr(t))),
            PayloadField("message", JStr(SlotStr(t)))}
      [] variant = "ODataError" ->
           {PayloadField("error", JObj(<<PayloadField("message", JStr(SlotStr(t)))>>))}

ConcNodes(variant, t) ==
    {JObj(fs) : fs \in UNION {[1..n -> ConcFields(variant, t)] : n \in 0..MaxConcPayload}}

\* keys a caller puts into additional_data through the accessor: one the
\* schema does not declare and one it does
CallerKeys(variant) ==
    {"x"} \cup
    CASE variant = "ItemBody" -> {"content"}
      [] variant = "ErrorDetails" -> {"code"}
      [] variant = "ODataError" -> {"error"}

\* additional_data a caller passes to the constructor
CallerMaps ==
    UNION {[ks -> {PyStr(s) : s \in StrValues}] : ks \in SUBSET {"x"}}

PyStrs == {PyNone} \cup {PyStr(s) : s \in StrValues}

AttrValues(variant) ==
    CASE variant = "ItemBody" ->
           [content : PyStrs,
            content_type : {PyNone} \cup {PyBodyType(m) : m \in BodyTypeMembers}]
      [] variant = "ErrorDetails" ->
           [code : PyStrs, message : PyStrs, target : {PyNone, PyStr("a")}]
      [] variant = "ODataError" ->
           [error : {PyNone} \cup {PyMainError(m, EmptyMap) : m \in PyStrs}]

\* instances a caller constructs directly for outbound use
Constructed(variant) ==
    {[variant |-> variant, attrs |-> a, additional_data |-> m] :
        a \in AttrValues(variant), m \in CallerMaps}

(***************************************************************************)
(*                              STATE MACHINE                              *)
(***************************************************************************)
\* a call: the operation, the class it is made on, and its argument
Call(op, on, arg) == [op |-> op, on |-> on, arg |-> arg]
NoCall == Call("none", "", "")
ArgOf(x, none) == IF x = none THEN "None" ELSE "given"

ModelInit ==
    /\ heap = [t \in Slots |-> NoObject]
    /\ pc = [t \in Slots |-> "start"]
    /\ node = [t \in Slots |-> NoNode]
    /\ fields = [t \in Slots |-> EmptyMap]
    /\ pos = [t \in Slots |-> 0]
    /\ written = [t \in Slots |-> <<>>]
    /\ raised = [t \in Slots |-> "none"]
    /\ call = [t \in Slots |-> NoCall]
    /\ orig = [t \in Slots |-> NoObject]
    /\ result = [t \in Slots |-> PyNone]

Init ==
    /\ duration_str = <<>>
    /\ dpc = "idle"
    /\ outcome = [kind |-> "none"]
    /\ ModelInit

\* direct construction of a populated instance: Variant(field=..., ...)
Construct(t) ==
    /\ pc[t] = "start"
    /\ \E variant \in Variants : \E o \in Constructed(variant) :
          heap' = [heap EXCEPT ![t] = o]
    /\ pc' = [pc EXCEPT ![t] = "populated"]
    /\ call' = [call EXCEPT ![t] = Call("__init__", heap'[t].variant, "given")]
    /\ raised' = [raised EXCEPT ![t] = "none"]
    /\ UNCHANGED <<durVars, node, fields, pos, written, orig, result>>

\* Variant.create_from_discriminator_value(n), n one of the nodes offered
CreateWith(t, variant, n, reread) ==
    LET r == create_from_discriminator_value(variant, n)
    IN /\ call' = [call EXCEPT ![t] =
                      Call("create_from_discriminator_value", variant, ArgOf(n, NoNode))]
       /\ raised' = [raised EXCEPT ![t] = r.raised]
       /\ IF r.raised = "none"
          THEN /\ heap' = [heap EXCEPT ![t] = r.value]
               /\ node' = [node EXCEPT ![t] = n]
               /\ pc' = [pc EXCEPT ![t] = "created"]
               /\ orig' = [orig EXCEPT ![t] = IF reread THEN heap[t] ELSE NoObject]
          ELSE UNCHANGED <<heap, node, pc, orig>>
       /\ UNCHANGED <<durVars, fields, pos, written, result>>

\* the factory on a node of an incoming payload
CreateFromDiscriminatorValue(t) ==
    /\ pc[t] = "start"
    /\ \E variant \in Variants : \E n \in Nodes(variant) \cup {NoNode} :
          CreateWith(t, variant, n, FALSE)

\* the factory on the node that reads back what serialize wrote
CreateFromWritten(t) ==
    /\ pc[t] = "serialized"
    /\ CreateWith(t, heap[t].variant, JObj(WriterPayload(written[t])), TRUE)

\* the decoder asks the fresh instance for its callbacks
GetFieldDeserializers(t) ==
    /\ pc[t] = "created"
    /\ fields' = [fields EXCEPT ![t] = get_field_deserializers(heap[t].variant, t)]
    /\ pos' = [pos EXCEPT ![t] = 1]
    /\ pc' = [pc EXCEPT ![t] = IF Len(node[t].val) = 0 THEN "populated" ELSE "decoding"]
    /\ call' = [call EXCEPT ![t] = Call("get_field_deserializers", heap[t].variant, "given")]
    /\ raised' = [raised EXCEPT ![t] = "none"]
    /\ UNCHANGED <<durVars, heap, node, written, orig, result>>

\* the decoder dispatches the next field of the payload
DecodeField(t) ==
    /\ pc[t] = "decoding"
    /\ LET f == node[t].val[pos[t]]
           known == f.name \in DOMAIN fields[t]
           cb == fields[t][f.name]
           v == ReadValue(cb.read, f.node)
           failed == known /\ v = DecodeError
       IN /\ call' = [call EXCEPT ![t] =
                        Call(IF known THEN "callback" ELSE "additional_data",
                             heap[t].variant, f.name)]
          /\ raised' = [raised EXCEPT ![t] = IF failed THEN "DecodeError" ELSE "none"]
          /\ heap' = IF failed THEN heap
                     ELSE IF known
                     THEN [heap EXCEPT ![cb.self] = SetAttr(@, cb.attr, v)]
                     ELSE [heap EXCEPT ![t].additional_data =
                                          MapPut(@, f.name, RawValue(f.node))]
          /\ pc' = [pc EXCEPT ![t] =
                      IF failed THEN "failed"
                      ELSE IF pos[t] = Len(node[t].val) THEN "populated"
                      ELSE "decoding"]
          /\ pos' = [pos EXCEPT ![t] = IF failed THEN @ ELSE @ + 1]
    /\ UNCHANGED <<durVars, node, fields, written, orig, result>>

\* a caller injects an entry through the additional_data accessor
Inject(t) ==
    /\ pc[t] = "populated"
    /\ \E k \in CallerKeys(heap[t].variant) : \E s \in StrValues :
          /\ heap' = [heap EXCEPT ![t].additional_data = MapPut(@, k, PyStr(s))]
          /\ call' = [call EXCEPT ![t] = Call("additional_data.__setitem__", heap[t].variant, k)]
    /\ raised' = [raised EXCEPT ![t] = "none"]
    /\ orig' = [orig EXCEPT ![t] = NoObject]
    /\ UNCHANGED <<durVars, pc, node, fields, pos, written, result>>

\* instance.serialize(writer)
Serialize(t) ==
    /\ pc[t] = "populated"
    /\ \E writer \in {NoWriter, TheWriter} :
          LET r == serialize(heap[t], writer)
          IN /\ call' = [call EXCEPT ![t] = Call("serialize", heap[t].variant, ArgOf(writer, NoWriter))]
             /\ raised' = [raised EXCEPT ![t] = r.raised]
             /\ IF r.raised = "none"
                THEN /\ written' = [written EXCEPT ![t] = r.calls]
                     /\ pc' = [pc EXCEPT ![t] = "serialized"]
                     /\ orig' = [orig EXCEPT ![t] = NoObject]
                ELSE UNCHANGED <<written, pc, orig>>
    /\ UNCHANGED <<durVars, heap, node, fields, pos, result>>

\* reading instance.primary_message
PrimaryMessage(t) ==
    /\ pc[t] = "populated"
    /\ heap[t].variant = "ODataError"
    /\ result' = [result EXCEPT ![t] = ODataError_primary_message(heap[t])]
    /\ call' = [call EXCEPT ![t] = Call("primary_message", heap[t].variant, "given")]
    /\ raised' = [raised EXCEPT ![t] = "none"]
    /\ UNCHANGED <<durVars, heap, pc, node, fields, pos, written, orig>>

\* one caller drives one instance through the protocol
Next ==
    \/ Construct(MainSlot)
    \/ CreateFromDiscriminatorValue(MainSlot)
    \/ CreateFromWritten(MainSlot)
    \/ GetFieldDeserializers(MainSlot)
    \/ DecodeField(MainSlot)
    \/ Inject(MainSlot)
    \/ Serialize(MainSlot)
    \/ PrimaryMessage(MainSlot)

Spec == Init /\ [][Next]_vars

\* two threads, each decoding a payload into its own instance
ConcCreate(t) ==
    /\ pc[t] = "start"
    /\ \E variant \in Variants : \E n \in ConcNodes(variant, t) :
          CreateWith(t, variant, n, FALSE)

ConcNext ==
    \E t \in Slots :
        \/ ConcCreate(t)
        \/ GetFieldDeserializers(t)
        \/ DecodeField(t)

ConcSpec == Init /\ [][ConcNext]_vars

DurInit ==
    /\ duration_str \in DurationInputs
    /\ dpc = "start"
    /\ outcome = [kind |-> "none"]
    /\ ModelInit

\* the call parseTimeDeltaFromIsoFormat(duration_str)
Parse ==
    /\ dpc = "start"
    /\ outcome' = ParseTimeDeltaFromIsoFormat(duration_str)
    /\ dpc' = "done"
    /\ UNCHANGED <<duration_str, modelVars>>

DurNext == Parse

DurSpec == DurInit /\ [][DurNext]_vars


(***************************************************************************)
(*                              PROPERTIES                                 *)
(***************************************************************************)
\* ---- the duration grammar P[nY][nM][nW][nD][T[nH][nM][nS]], stated on its own ----
DateDesignators == <<"Y", "M", "W", "D">>
TimeDesignators == <<"H", "M", "S">>

\* the elements of seq whose index is in keep, in order
RECURSIVE Pick(_, _, _)
Pick(seq, keep, i) ==
    IF i > Len(seq) THEN <<>>
    ELSE (IF i \in keep THEN <<seq[i]>> ELSE <<>>) \o Pick(seq, keep, i + 1)

\* designator strings the grammar allows after the leading P
AllowedDesignators ==
    LET dates == {Pick(DateDesignators, k, 1) : k \in SUBSET (1..4)}
        times == {Pick(TimeDesignators, k, 1) : k \in SUBSET (1..3)}
    IN dates \cup {d \o <<"T">> \o t : d \in dates, t \in times}

\* the non-digit characters of s from position i on
RECURSIVE LettersFrom(_, _)
LettersFrom(s, i) ==
    IF i > Len(s) THEN <<>>
    ELSE (IF IsDigit(s[i]) THEN <<>> ELSE <<s[i]>>) \o LettersFrom(s, i + 1)

\* s is P followed by number-designator pairs and at most one bare T, with the
\* designators in the grammar's order
InGrammar(s) ==
    /\ Len(s) >= 1
    /\ s[1] = "P"
    /\ ~IsDigit(s[Len(s)])
    /\ \A i \in 2..Len(s) :
          /\ (s[i] = "T" => ~IsDigit(s[i - 1]))
          /\ (~IsDigit(s[i]) /\ s[i] # "T" => IsDigit(s[i - 1]))
    /\ LettersFrom(s, 2) \in AllowedDesignators

\* the digits in front of designator d of s, d looked for before the T
\* (date) or after it (time); empty when the designator is absent
NumberBefore(s, d, time) ==
    LET tpos == IF \E i \in 1..Len(s) : s[i] = "T"
                THEN CHOOSE i \in 1..Len(s) : s[i] = "T" ELSE Len(s) + 1
        at == {i \in 1..Len(s) : s[i] = d /\ (IF time THEN i > tpos ELSE i < tpos)}
    IN IF at = {} THEN <<>>
       ELSE LET e == CHOOSE i \in at : TRUE
                b == CHOOSE j \in 1..e :
                        /\ \A k \in j..(e - 1) : IsDigit(s[k])
                        /\ ~IsDigit(s[j - 1])
            IN SubSeq(s, b, e - 1)

ExpectedComponent(s, g) ==
    LET ds == NumberBefore(s, Designator[IF g < TimeStep THEN g ELSE g + 1], g >= TimeStep)
    IN IF ds = <<>> THEN 0 ELSE IntOf(ds)

\* C1: for every input that fully matches the grammar the parser returns,
\* without raising, an elapsed-time value whose years, months, weeks, days,
\* hours, minutes and seconds are the captured integers, 0 for absent groups.
C1_ReturnsComponents ==
    (dpc = "done" /\ InGrammar(duration_str)) =>
        /\ outcome.kind = "timedelta"
        /\ \A g \in 1..7 : outcome[GroupNames[g]] = ExpectedComponent(duration_str, g)

\* C2: for every input that does not match the grammar in its entirety the
\* parser raises ValueError and returns no value.
C2_RejectsNonMatching ==
    (dpc = "done" /\ ~InGrammar(duration_str)) => outcome.kind = "ValueError"

C2_Witness ==
    /\ dpc = "done"
    /\ duration_str = <<"P", "1", "Y", "2", "M", "3", "W", "4", "D", "T",
                        "5", "H", "6", "M", "7", "S", "X">>
    /\ outcome.kind = "ValueError"

\* ---- the protocol ----
\* payload names of the fields a variant declares: the keys its serialize writes
DeclaredNames(variant) ==
    LET new == create_from_discriminator_value(variant, JObj(<<>>)).value
        calls == serialize(new, TheWriter).calls
    IN {calls[i].key : i \in {j \in 1..Len(calls) :
                                 calls[j].op # "write_additional_data_value"}}

Disjoint(o) ==
    o.variant \in Variants => DOMAIN o.additional_data \cap DeclaredNames(o.variant) = {}

\* index of the last field of fs named name, 0 when there is none
LastIndex(fs, name) ==
    IF \E i \in 1..Len(fs) : fs[i].name = name
    THEN CHOOSE i \in 1..Len(fs) :
            fs[i].name = name /\ \A j \in (i + 1)..Len(fs) : fs[j].name # name
    ELSE 0

\* what decoding the fields fs into a fresh instance of a variant must give:
\* every declared attribute holds the typed value of the last field carrying
\* its payload name (None without one), every other name is kept raw
DecodedAttr(variant, fs, attr) ==
    LET fd == get_field_deserializers(variant, MainSlot)
        names == {k \in DOMAIN fd : fd[k].attr = attr /\ LastIndex(fs, k) > 0}
    IN IF names = {} THEN PyNone
       ELSE LET k == CHOOSE x \in names : TRUE
            IN ReadValue(fd[k].read, fs[LastIndex(fs, k)].node)

DecodedAdditionalData(variant, fs) ==
    [k \in {fs[i].name : i \in 1..Len(fs)} \ DOMAIN get_field_deserializers(variant, MainSlot)
        |-> RawValue(fs[LastIndex(fs, k)].node)]

AttrNames(variant) ==
    CASE variant = "ItemBody" -> {"content", "content_type"}
      [] variant = "ErrorDetails" -> {"code", "message", "target"}
      [] variant = "ODataError" -> {"error"}

IsDecodingOf(o, variant, fs) ==
    /\ o.variant = variant
    /\ DOMAIN o.attrs = AttrNames(variant)
    /\ \A a \in AttrNames(variant) : o.attrs[a] = DecodedAttr(variant, fs, a)
    /\ o.additional_data = DecodedAdditionalData(variant, fs)

IsNullCall(c) ==
    c.op \in {"create_from_discriminator_value", "serialize"} /\ c.arg = "None"

\* C3: create_from_discriminator_value(None) raises TypeError and constructs
\* no instance; serialize(None) raises TypeError before anything is written
\* and leaves the instance unchanged.
C3_NullGuards ==
    [][\A t \in Slots :
          IsNullCall(call'[t]) =>
              /\ raised'[t] = "TypeError"
              /\ heap'[t] = heap[t]
              /\ written'[t] = written[t]
              /\ pc'[t] = pc[t]]_vars

C3_Witness ==
    /\ call[MainSlot] = Call("serialize", "ErrorDetails", "None")
    /\ raised[MainSlot] = "TypeError"
    /\ heap[MainSlot].attrs.code = PyStr("a")
    /\ DOMAIN heap[MainSlot].additional_data = {"x"}
    /\ written[MainSlot] = <<>>

RoundTripExact(t) ==
    /\ pc[t] # "failed"
    /\ pc[t] = "populated" =>
          /\ heap[t].attrs = orig[t].attrs
          /\ heap[t].additional_data = orig[t].additional_data

\* C4 as stated: for any populated instance, whatever its additional_data,
\* serializing it and decoding what was written gives back the same declared
\* fields and the same additional_data.
C4_RoundTripAny ==
    \A t \in Slots : orig[t].variant \in Variants => RoundTripExact(t)

\* C4 amended: the round trip is exact for every populated instance whose
\* additional_data holds no payload name of a declared field.
C4_RoundTripDisjoint ==
    \A t \in Slots :
        (orig[t].variant \in Variants /\ Disjoint(orig[t])) => RoundTripExact(t)

C4_Witness ==
    /\ pc[MainSlot] = "populated"
    /\ orig[MainSlot].variant = "ItemBody"
    /\ orig[MainSlot].attrs.content_type = PyBodyType("Html")
    /\ orig[MainSlot].attrs.content = PyNone
    /\ DOMAIN orig[MainSlot].additional_data = {"x", DiscriminatorKey}
    /\ heap[MainSlot] = orig[MainSlot]

SerializeStep(t) == pc[t] = "populated" /\ pc'[t] = "serialized"

\* C5: a payload field whose name is no key of the field-deserializer map is
\* stored raw in additional_data under its own name and changes no declared
\* field; serialize then hands every such entry, unchanged, to the
\* additional-data write.
C5_UnknownFieldPreserved ==
    [][\A t \in Slots :
          /\ (/\ pc[t] = "decoding"
              /\ pos'[t] = pos[t] + 1
              /\ node[t].val[pos[t]].name \notin DOMAIN fields[t])
             => /\ node[t].val[pos[t]].name \in DOMAIN heap'[t].additional_data
                /\ heap'[t].additional_data[node[t].val[pos[t]].name]
                      = RawValue(node[t].val[pos[t]].node)
                /\ heap'[t].attrs = heap[t].attrs
          /\ SerializeStep(t)
             => \A k \in DOMAIN heap[t].additional_data :
                   \E i \in 1..Len(written'[t]) :
                      /\ written'[t][i].op = "write_additional_data_value"
                      /\ k \in DOMAIN written'[t][i].value.val
                      /\ written'[t][i].value.val[k] = heap[t].additional_data[k]]_vars

C5_Witness ==
    /\ pc[MainSlot] = "serialized"
    /\ heap[MainSlot].variant = "ODataError"
    /\ node[MainSlot] = JObj(<<PayloadField("x", JStr("b")),
                               PayloadField("error", JObj(<<>>))>>)
    /\ heap[MainSlot].additional_data = ("x" :> PyStr("b"))
    /\ \E i \in 1..Len(written[MainSlot]) :
          written[MainSlot][i] = WriteAdditionalData("x" :> PyStr("b"))

\* C6 as stated: in every reachable state, also after a caller has used the
\* additional_data accessor, no key of additional_data is the payload name of
\* a declared field.
C6_AlwaysDisjoint == \A t \in Slots : Disjoint(heap[t])

\* the step in which a caller stores a declared payload name through the
\* additional_data accessor
CallerSuppliesDeclared(t) ==
    /\ call'[t].op = "additional_data.__setitem__"
    /\ call'[t].arg \in DeclaredNames(call'[t].on)

\* C6 amended: no key of additional_data is the payload name of a declared
\* field after construction, after any number of decode passes, and after any
\* caller use of the accessor that stores only names the variant does not
\* declare: every step other than a caller storing a declared name keeps
\* additional_data disjoint from the declared names.
C6_DisjointPreserved ==
    [][\A t \in Slots :
          (Disjoint(heap[t]) /\ ~CallerSuppliesDeclared(t)) => Disjoint(heap'[t])]_vars

C6_Witness ==
    /\ pc[MainSlot] = "populated"
    /\ heap[MainSlot].variant = "ItemBody"
    /\ call[MainSlot] = Call("additional_data.__setitem__", "ItemBody", "x")
    /\ node[MainSlot] = JObj(<<PayloadField("contentType", JStr("html")),
                               PayloadField(DiscriminatorKey,
                                            JStr("#microsoft.graph.unknownType")),
                               PayloadField("content", JStr("a"))>>)
    /\ DOMAIN heap[MainSlot].additional_data = {"x", DiscriminatorKey}
    /\ heap[MainSlot].attrs.content_type = PyBodyType("Html")

WriterOpFor(read) ==
    CASE read = "get_str_value" -> "write_str_value"
      [] read = "get_enum_value" -> "write_enum_value"
      [] read = "get_object_value" -> "write_object_value"

\* C7: serialize with a writer writes every declared field exactly once with
\* the primitive of its type, and the additional_data mapping exactly once,
\* after all declared fields.
C7_DeclaredThenAdditional ==
    \A t \in Slots :
        pc[t] = "serialized" =>
            LET w == written[t]
                fd == get_field_deserializers(heap[t].variant, t)
            IN /\ Len(w) = Cardinality(DOMAIN fd) + 1
               /\ \A k \in DOMAIN fd :
                     \E i \in 1..(Len(w) - 1) :
                        /\ w[i].key = k
                        /\ w[i].op = WriterOpFor(fd[k].read)
                        /\ w[i].value = heap[t].attrs[fd[k].attr]
               /\ \A i \in 1..(Len(w) - 1) : w[i].op # "write_additional_data_value"
               /\ w[Len(w)].op = "write_additional_data_value"
               /\ w[Len(w)].value = PyDict(heap[t].additional_data)

C7_Witness ==
    /\ pc[MainSlot] = "serialized"
    /\ heap[MainSlot].variant = "ItemBody"
    /\ written[MainSlot] =
          <<WriteCall("write_str_value", "content", PyStr("a")),
            WriteCall("write_enum_value", "contentType", PyBodyType("Text")),
            WriteAdditionalData("content" :> PyStr("b"))>>

\* C8: on any node that is not None, with an unknown discriminator or with
\* none, the factory raises nothing and returns a fresh instance of the
\* variant it was called on, all declared fields None and additional_data
\* empty; decoding then populates that instance from the payload's fields,
\* and no failure comes from the discriminator.
C8_DiscriminatorFallback ==
    \A t \in Slots :
        /\ (call[t].op = "create_from_discriminator_value" /\ call[t].arg = "given")
           => /\ raised[t] = "none"
              /\ pc[t] = "created"
              /\ heap[t].variant = call[t].on
              /\ DOMAIN heap[t].attrs = AttrNames(call[t].on)
              /\ \A a \in DOMAIN heap[t].attrs : heap[t].attrs[a] = PyNone
              /\ heap[t].additional_data = EmptyMap
        /\ (pc[t] = "populated"
              /\ call[t].op \in {"get_field_deserializers", "callback", "additional_data"})
           => IsDecodingOf(heap[t], call[t].on, node[t].val)
        /\ pc[t] = "failed" => node[t].val[pos[t]].name # DiscriminatorKey

C8_Witness ==
    /\ pc[MainSlot] = "populated"
    /\ call[MainSlot].op = "callback"
    /\ orig[MainSlot] = NoObject
    /\ node[MainSlot] = JObj(<<PayloadField(DiscriminatorKey,
                                            JStr("#microsoft.graph.unknownType")),
                               PayloadField("content", JStr("a"))>>)
    /\ heap[MainSlot].attrs.content = PyStr("a")
    /\ DOMAIN heap[MainSlot].additional_data = {DiscriminatorKey}

\* the fields of a slot's payload dispatched so far
Dispatched(t) ==
    IF pc[t] = "populated" THEN node[t].val ELSE SubSeq(node[t].val, 1, pos[t] - 1)

\* C9: with two threads decoding two instances and their callback
\* invocations interleaved in any order, each instance holds, at every point,
\* exactly what its own payload's fields dispatched so far give it, as if it
\* were decoded alone.
C9_InstanceIsolation ==
    \A t \in Slots :
        /\ pc[t] = "start" => heap[t] = NoObject
        /\ pc[t] = "created" => IsDecodingOf(heap[t], call[t].on, <<>>)
        /\ pc[t] \in {"decoding", "populated"}
              => IsDecodingOf(heap[t], heap[t].variant, Dispatched(t))

C9_Witness ==
    /\ \A t \in Slots :
          /\ pc[t] = "decoding"
          /\ pos[t] = 2
          /\ heap[t].variant = "ErrorDetails"
          /\ heap[t].attrs.code = PyStr(SlotStr(t))
          /\ node[t].val[2].name = "message"

\* C10: primary_message never returns None: it is error.message when error
\* and error.message are both set and the empty string otherwise, and reading
\* it changes neither the declared fields nor additional_data.
C10_PrimaryMessageTotal ==
    [][\A t \in Slots :
          call'[t].op = "primary_message" =>
              /\ result'[t].kind = "str"
              /\ result'[t] =
                    (IF heap[t].attrs.error = PyNone THEN PyStr("")
                     ELSE IF heap[t].attrs.error.message = PyNone THEN PyStr("")
                     ELSE heap[t].attrs.error.message)
              /\ heap'[t] = heap[t]]_vars

C10_Witness ==
    /\ call[MainSlot].op = "primary_message"
    /\ heap[MainSlot].attrs.error = PyMainError(PyNone, EmptyMap)
    /\ result[MainSlot] = PyStr("")

====
